---- MODULE Spec2Model ----
(***************************************************************************)
(* Model of scripts/setup.py: parse_xlsx (row normalisation), write_json   *)
(* and extract_and_convert (asset need-sets, archive index, extraction,    *)
(* Docker batch conversion, scratch directory clean-up).                   *)
(*                                                                         *)
(* Python strings are sequences of one-character strings; None is the      *)
(* distinguished value None below.  A dict or a directory is a function    *)
(* whose DOMAIN is its key set.                                            *)
(***************************************************************************)
EXTENDS Integers, Sequences, FiniteSets, TLC

VARIABLES
    pc,                 \* position in main()
    i,                  \* rows consumed by the enumerate() loop of parse_xlsx
    questions,          \* list of question dicts
    skipped,            \* skip counter of parse_xlsx
    json,               \* questions.json: [written, doc]
    zip_members,        \* zf.namelist() of the archive on disk
    media,              \* MEDIA_DIR: file name -> content
    media0,             \* MEDIA_DIR as it was when extract_and_convert began
    needed_images, needed_videos, videos_to_convert, videos_skip,
    images_done, images_skip, wmv_extracted, not_found,
    tmp_created,        \* mkdtemp has been called
    tmp_exists,         \* the scratch directory is on disk
    tmp_files,          \* names of the files in the scratch directory
    zf_open,            \* the ZipFile handle is open
    name_map,           \* lowercase basename -> member path
    todo,               \* elements the current set iteration has not visited yet
    fate,               \* per asset: which counter was incremented for it
    reads,              \* assets for which zf.open(...) was called
    report,             \* what the run printed
    exc,                \* an exception is propagating out of extract_and_convert
    docker,             \* calls made to docker: info / build / run
    converted           \* result of the post-run existence count

vars == << pc, i, questions, skipped, json, zip_members, media, media0,
           needed_images, needed_videos, videos_to_convert, videos_skip,
           images_done, images_skip, wmv_extracted, not_found,
           tmp_created, tmp_exists, tmp_files, zf_open, name_map, todo,
           fate, reads, report, exc, docker, converted >>

parseVars == << i, questions, skipped >>
envVars == << zip_members, media >>
ecVars == << media0, needed_images, needed_videos, videos_to_convert, videos_skip,
             images_done, images_skip, wmv_extracted, not_found,
             tmp_created, tmp_exists, tmp_files, zf_open, name_map, todo,
             fate, reads, report, exc, docker, converted >>

\* ------------------------------------------------------------------ bounds
MaxRows == 2
MaxMembers == 3

\* ------------------------------------------------------- Python primitives
None == << "<None>" >>

Truthy(v) == v # None /\ v # << >>

Str(v) == IF v = None THEN << "N", "o", "n", "e" >> ELSE v

LowerChar(c) ==
    CASE c = "A" -> "a" [] c = "B" -> "b" [] c = "C" -> "c" [] c = "D" -> "d"
      [] c = "E" -> "e" [] c = "G" -> "g" [] c = "J" -> "j" [] c = "M" -> "m"
      [] c = "N" -> "n" [] c = "P" -> "p" [] c = "Q" -> "q" [] c = "T" -> "t"
      [] c = "V" -> "v" [] c = "W" -> "w" [] c = "X" -> "x"
      [] OTHER -> c

Lower(s) == [k \in 1..Len(s) |-> LowerChar(s[k])]

EndsWith(s, suf) ==
    /\ Len(s) >= Len(suf)
    /\ SubSeq(s, Len(s) - Len(suf) + 1, Len(s)) = suf

IsSpace(c) == c = " "

RECURSIVE LStrip(_)
LStrip(s) == IF s # << >> /\ IsSpace(Head(s)) THEN LStrip(Tail(s)) ELSE s

RECURSIVE RStrip(_)
RStrip(s) ==
    IF s # << >> /\ IsSpace(s[Len(s)]) THEN RStrip(SubSeq(s, 1, Len(s) - 1)) ELSE s

Strip(s) == RStrip(LStrip(s))

\* str.split(sep) for a one-character separator
RECURSIVE SplitAcc(_, _, _, _)
SplitAcc(s, sep, cur, acc) ==
    IF s = << >> THEN Append(acc, cur)
    ELSE IF Head(s) = sep THEN SplitAcc(Tail(s), sep, << >>, Append(acc, cur))
    ELSE SplitAcc(Tail(s), sep, Append(cur, Head(s)), acc)

Split(s, sep) == SplitAcc(s, sep, << >>, << >>)

\* index of the last occurrence of c in s, 0 if none
RECURSIVE LastIndex(_, _, _)
LastIndex(s, c, k) ==
    IF k = 0 THEN 0 ELSE IF s[k] = c THEN k ELSE LastIndex(s, c, k - 1)

\* os.path.basename
Basename(p) == SubSeq(p, LastIndex(p, "/", Len(p)) + 1, Len(p))

\* os.path.splitext(p)[0]: the extension starts at the last dot of the
\* basename, unless that dot is preceded only by dots
SplitextRoot(p) ==
    LET sep == LastIndex(p, "/", Len(p))
        dot == LastIndex(p, ".", Len(p))
    IN  IF dot > sep /\ \E k \in (sep + 1)..(dot - 1) : p[k] # "."
        THEN SubSeq(p, 1, dot - 1)
        ELSE p

DotWmv == << ".", "w", "m", "v" >>
DotWebm == << ".", "w", "e", "b", "m" >>

\* ------------------------------------------------------------ configuration
CATEGORY_FILTER == << "B" >>

\* ------------------------------------------------------ parse_xlsx, per row
\* A row is a record of the ten cells; an empty cell is None.  The number
\* cell is numeric and only tested for truth, so an empty one is 0.
RowRejected(row) == ~Truthy(row.text) \/ ~Truthy(row.correct)

Cats(row) ==
    LET parts == Split(Str(row.categories), ",")
    IN  { Strip(parts[k]) : k \in 1..Len(parts) }

CategoryExcluded(row) == Truthy(CATEGORY_FILTER) /\ CATEGORY_FILTER \notin Cats(row)

QType(row) == IF row.correct \in { << "T" >>, << "N" >> } THEN "TN" ELSE "ABC"

\* answers: None for TN, else the dict of the non-empty choice cells, as the
\* list of its (key, value) items in insertion order
Answers(row) ==
    IF QType(row) = "TN" THEN [isNone |-> TRUE, items |-> << >>]
    ELSE [isNone |-> FALSE,
          items |-> (IF Truthy(row.ans_a) THEN << << "A", Strip(Str(row.ans_a)) >> >> ELSE << >>)
               \o (IF Truthy(row.ans_b) THEN << << "B", Strip(Str(row.ans_b)) >> >> ELSE << >>)
               \o (IF Truthy(row.ans_c) THEN << << "C", Strip(Str(row.ans_c)) >> >> ELSE << >>)]

\* media_name after line 172 (unchanged when the cell is falsy)
MediaNameStripped(row) ==
    IF Truthy(row.media_name) THEN Strip(Str(row.media_name)) ELSE row.media_name

MediaFile(row) ==
    IF Truthy(row.media_name)
    THEN LET m == MediaNameStripped(row)
         IN  IF EndsWith(Lower(m), DotWmv) THEN SplitextRoot(m) \o DotWebm ELSE m
    ELSE None

\* line 185 tests the already stripped media_name
MediaOrig(row) ==
    LET m == MediaNameStripped(row)
    IN  IF Truthy(m) THEN Strip(Str(m)) ELSE None

Question(row) ==
    [ id        |-> IF row.number # 0 THEN row.number ELSE row.lp,
      text      |-> Strip(Str(row.text)),
      type      |-> QType(row),
      answers   |-> Answers(row),
      correct   |-> Strip(Str(row.correct)),
      media     |-> MediaFile(row),
      mediaOrig |-> MediaOrig(row),
      structure |-> IF Truthy(row.structure) THEN Strip(Str(row.structure))
                    ELSE << "P", "O", "D", "S", "T", "A", "W", "O", "W", "Y" >> ]

\* ------------------------------------------------------------- input domains
TextCells == { None, << " " >>, << "Q" >> }
CorrectCells == { None, << " " >>, << "T" >>, << " ", "T", " " >>, << "A" >>, << "D" >> }
ChoiceCells == { None, << " ", "X", " " >> }
MediaCells == { None, << " " >>, << "a", ".", "j", "p", "g" >>,
                << " ", "a", ".", "W", "M", "V" >> }
CategoryCells == { None, << "A", ",", " ", "B" >>, << "C", ",", "B", "E" >> }

\* every combination of cell values (parse_xlsx on its own)
RowsFull ==
    [ lp : {1}, number : {0, 7}, text : TextCells,
      ans_a : ChoiceCells, ans_b : {None}, ans_c : {None},
      correct : CorrectCells, media_name : MediaCells,
      structure : {None}, categories : CategoryCells ]

\* rows of the whole-run specification: valid questions that differ in media
PipelineMedia == { None, << "a", ".", "j", "p", "g" >>, << "a", ".", "w", "m", "v" >>,
                   << "b", ".", "W", "M", "V" >> }

RowsMedia ==
    [ lp : {1}, number : {0}, text : { << "Q" >> },
      ans_a : {None}, ans_b : {None}, ans_c : {None},
      correct : { << "T" >> }, media_name : PipelineMedia,
      structure : {None}, categories : { << "B" >>, << "C" >> } ]

\* ------------------------------------------------------------ parse_xlsx
\* One iteration of the loop over ws.iter_rows: row 0 is the header.
ParseRow(row) ==
    /\ pc = "parse"
    /\ i <= MaxRows
    /\ i' = i + 1
    /\ IF i = 0 THEN UNCHANGED << questions, skipped >>
       ELSE IF RowRejected(row) \/ CategoryExcluded(row)
            THEN skipped' = skipped + 1 /\ UNCHANGED questions
            ELSE questions' = Append(questions, Question(row)) /\ UNCHANGED skipped
    /\ UNCHANGED << pc, json, envVars, ecVars >>

\* The sheet is exhausted: wb.close(), return questions; main calls write_json.
ParseEnd ==
    /\ pc = "parse"
    /\ pc' = "write_json"
    /\ UNCHANGED << parseVars, json, envVars, ecVars >>

write_json ==
    /\ pc = "write_json"
    /\ json' = [written |-> TRUE, doc |-> questions]
    /\ pc' = "extract"
    /\ UNCHANGED << parseVars, envVars, ecVars >>

\* ------------------------------------------------- archive and media inputs
Members == { << "d", "/", "a", ".", "j", "p", "g" >>,
             << "e", "/", "A", ".", "J", "P", "G" >>,
             << "a", ".", "w", "m", "v" >>,
             << "d", "/", "B", ".", "w", "m", "v" >> }

\* member lists of at most n entries, no path twice
NameLists(n) ==
    { l \in UNION { [1..k -> Members] : k \in 0..n } :
        \A x, y \in DOMAIN l : l[x] = l[y] => x = y }

\* files a previous run may have left in MEDIA_DIR
OldFiles == { << "a", ".", "j", "p", "g" >>,
              << "a", ".", "w", "e", "b", "m" >>,
              << "b", ".", "w", "e", "b", "m" >> }

Old == << "old" >>
Partial == << "partial" >>
Webm(content) == << "webm" >> \o content

EmptyDir == [n \in {} |-> Old]

\* ------------------------------------------------------ extract_and_convert
WebmName(wmv_name) == SplitextRoot(wmv_name) \o DotWebm

IsVideo(orig) == EndsWith(Lower(orig), DotWmv)

Origs(qs) == { qs[k].mediaOrig : k \in { j \in DOMAIN qs : Truthy(qs[j].mediaOrig) } }

NeededImages(qs) == { o \in Origs(qs) : ~IsVideo(o) }

NeededVideos(qs) == { o \in Origs(qs) : IsVideo(o) }

\* slating that forgets the existence test of line 241
VideosToConvert_all(nv, dir) == nv

VideosToConvert(nv, dir) == { w \in nv : WebmName(w) \notin DOMAIN dir }

\* an index that keeps the entry it already has
RECURSIVE BuildNameMap_first(_, _)
BuildNameMap_first(members, acc) ==
    IF members = << >> THEN acc
    ELSE BuildNameMap_first(Tail(members),
                            acc @@ (Lower(Basename(Head(members))) :> Head(members)))

\* name_map[os.path.basename(member).lower()] = member, for each member in turn
RECURSIVE BuildNameMap(_, _)
BuildNameMap(members, acc) ==
    IF members = << >> THEN acc
    ELSE BuildNameMap(Tail(members),
                      (Lower(Basename(Head(members))) :> Head(members)) @@ acc)

\* a lookup that forgets to lower-case the wanted name
Lookup_exact(nm, name) == IF name \in DOMAIN nm THEN nm[name] ELSE None

\* name_map.get(name.lower())
Lookup(nm, name) == IF Lower(name) \in DOMAIN nm THEN nm[Lower(name)] ELSE None

Say(line) == report' = Append(report, line)

Said(tag) == \E k \in DOMAIN report : report[k][1] = tag

\* lines 221-255: need-sets, slating, counters, mkdtemp
Begin ==
    /\ pc = "extract"
    /\ needed_images' = NeededImages(questions)
    /\ needed_videos' = NeededVideos(questions)
    /\ videos_to_convert' = VideosToConvert(NeededVideos(questions), media)
    /\ videos_skip' = Cardinality(NeededVideos(questions))
                      - Cardinality(VideosToConvert(NeededVideos(questions), media))
    /\ Say(<< "extracting", Cardinality(needed_images'),
                Cardinality(videos_to_convert'), videos_skip' >>)
    /\ images_done' = 0 /\ images_skip' = 0 /\ wmv_extracted' = 0 /\ not_found' = 0
    /\ fate' = [a \in needed_videos' \ videos_to_convert' |-> "already"]
    /\ media0' = media
    /\ tmp_created' = TRUE /\ tmp_exists' = TRUE /\ tmp_files' = EmptyDir
    /\ pc' = "zip_open"
    /\ UNCHANGED << parseVars, json, envVars, zf_open, name_map, todo, reads,
                    exc, docker, converted >>

\* lines 257-261: open the archive and index its members
ZipOpen ==
    /\ pc = "zip_open"
    /\ zf_open' = TRUE
    /\ name_map' = BuildNameMap(zip_members, EmptyDir)
    /\ todo' = needed_images
    /\ pc' = "images"
    /\ UNCHANGED << parseVars, json, envVars, media0, needed_images, needed_videos,
                    videos_to_convert, videos_skip, images_done, images_skip,
                    wmv_extracted, not_found, tmp_created, tmp_exists, tmp_files,
                    fate, reads, report, exc, docker, converted >>

\* zipfile.ZipFile raises (missing file, BadZipFile)
ZipOpenRaises ==
    /\ pc = "zip_open"
    /\ exc' = TRUE
    /\ pc' = "finally"
    /\ UNCHANGED << parseVars, json, envVars, media0, needed_images, needed_videos,
                    videos_to_convert, videos_skip, images_done, images_skip,
                    wmv_extracted, not_found, tmp_created, tmp_exists, tmp_files,
                    zf_open, name_map, todo, fate, reads, report, docker, converted >>

\* lines 264-275: one iteration of the image loop
ExtractImage(img_name) ==
    /\ pc = "images"
    /\ img_name \in todo
    /\ todo' = todo \ {img_name}
    /\ IF img_name \in DOMAIN media
       THEN /\ images_skip' = images_skip + 1
            /\ fate' = (img_name :> "skipped") @@ fate
            /\ UNCHANGED << media, images_done, not_found, reads >>
       ELSE IF Lookup(name_map, img_name) = None
       THEN /\ not_found' = not_found + 1
            /\ fate' = (img_name :> "not_found") @@ fate
            /\ UNCHANGED << media, images_done, images_skip, reads >>
       ELSE /\ reads' = reads \cup {img_name}
            /\ media' = (img_name :> Lookup(name_map, img_name)) @@ media
            /\ images_done' = images_done + 1
            /\ fate' = (img_name :> "extracted") @@ fate
            /\ UNCHANGED << images_skip, not_found >>
    /\ UNCHANGED << pc, parseVars, json, zip_members, media0, needed_images,
                    needed_videos, videos_to_convert, videos_skip, wmv_extracted,
                    tmp_created, tmp_exists, tmp_files, zf_open, name_map,
                    report, exc, docker, converted >>

\* lines 273-274 raise (zf.open, open(dst), read or write): the target is
\* absent or holds part of the member; both with-blocks close on the way out
ExtractImageRaises(img_name) ==
    /\ pc = "images"
    /\ img_name \in todo
    /\ img_name \notin DOMAIN media
    /\ Lookup(name_map, img_name) # None
    /\ reads' = reads \cup {img_name}
    /\ media' \in { media, (img_name :> Partial) @@ media }
    /\ exc' = TRUE
    /\ zf_open' = FALSE
    /\ pc' = "finally"
    /\ UNCHANGED << parseVars, json, zip_members, media0, needed_images,
                    needed_videos, videos_to_convert, videos_skip, images_done,
                    images_skip, wmv_extracted, not_found, tmp_created, tmp_exists,
                    tmp_files, name_map, todo, fate, report, docker, converted >>

\* lines 277-281: the image loop is over
ImagesEnd ==
    /\ pc = "images"
    /\ todo = {}
    /\ Say(<< "images", images_done, images_skip, not_found >>)
    /\ todo' = videos_to_convert
    /\ pc' = "videos"
    /\ UNCHANGED << parseVars, json, envVars, media0, needed_images, needed_videos,
                    videos_to_convert, videos_skip, images_done, images_skip,
                    wmv_extracted, not_found, tmp_created, tmp_exists, tmp_files,
                    zf_open, name_map, fate, reads, exc, docker, converted >>

\* lines 282-290: one iteration of the WMV loop
ExtractVideo(wmv_name) ==
    /\ pc = "videos"
    /\ wmv_name \in todo
    /\ todo' = todo \ {wmv_name}
    /\ IF Lookup(name_map, wmv_name) = None
       THEN /\ not_found' = not_found + 1
            /\ fate' = (wmv_name :> "not_found") @@ fate
            /\ UNCHANGED << tmp_files, wmv_extracted, reads >>
       ELSE /\ reads' = reads \cup {wmv_name}
            /\ tmp_files' = (wmv_name :> Lookup(name_map, wmv_name)) @@ tmp_files
            /\ wmv_extracted' = wmv_extracted + 1
            /\ fate' = (wmv_name :> "extracted") @@ fate
            /\ UNCHANGED not_found
    /\ UNCHANGED << pc, parseVars, json, envVars, media0, needed_images,
                    needed_videos, videos_to_convert, videos_skip, images_done,
                    images_skip, tmp_created, tmp_exists, zf_open, name_map,
                    report, exc, docker, converted >>

\* lines 288-289 raise
ExtractVideoRaises(wmv_name) ==
    /\ pc = "videos"
    /\ wmv_name \in todo
    /\ Lookup(name_map, wmv_name) # None
    /\ reads' = reads \cup {wmv_name}
    /\ tmp_files' \in { tmp_files, (wmv_name :> Partial) @@ tmp_files }
    /\ exc' = TRUE
    /\ zf_open' = FALSE
    /\ pc' = "finally"
    /\ UNCHANGED << parseVars, json, envVars, media0, needed_images, needed_videos,
                    videos_to_convert, videos_skip, images_done, images_skip,
                    wmv_extracted, not_found, tmp_created, tmp_exists, name_map,
                    todo, fate, report, docker, converted >>

\* a conversion block indented into the with-block: the archive stays open
CloseArchive_leak(open) == open

\* leaving `with zipfile.ZipFile(...) as zf` closes the handle
CloseArchive(open) == FALSE

\* lines 291-293: the WMV loop is over, the with-block closes the archive
VideosEnd ==
    /\ pc = "videos"
    /\ todo = {}
    /\ IF videos_to_convert # {}
       THEN Say(<< "wmv", wmv_extracted,
                     Cardinality(videos_to_convert) - wmv_extracted >>)
       ELSE UNCHANGED report
    /\ zf_open' = CloseArchive(zf_open)
    /\ pc' = "convert"
    /\ UNCHANGED << parseVars, json, envVars, media0, needed_images, needed_videos,
                    videos_to_convert, videos_skip, images_done, images_skip,
                    wmv_extracted, not_found, tmp_created, tmp_exists, tmp_files,
                    name_map, todo, fate, reads, exc, docker, converted >>

\* ------------------------------------------------------- Docker conversion
\* lines 295-300: nothing is slated
NothingSlated ==
    /\ pc = "convert"
    /\ videos_to_convert = {}
    /\ IF videos_skip # 0 THEN Say(<< "all_exist", videos_skip >>)
                          ELSE Say(<< "no_videos" >>)
    /\ pc' = "finally"
    /\ UNCHANGED << parseVars, json, envVars, media0, needed_images, needed_videos,
                    videos_to_convert, videos_skip, images_done, images_skip,
                    wmv_extracted, not_found, tmp_created, tmp_exists, tmp_files,
                    zf_open, name_map, todo, fate, reads, exc, docker, converted >>

\* an unavailable branch that warns and falls through to the build
AfterUnavailable_fallthrough == "build"

\* where the unavailable branch of lines 304-307 goes: return, through finally
AfterUnavailable == "finally"

\* lines 302-307: docker_available() is `docker info` succeeding or not
DockerCheck(available) ==
    /\ pc = "convert"
    /\ videos_to_convert # {}
    /\ docker' = [docker EXCEPT !.info = @ + 1]
    /\ IF available
       THEN /\ Say(<< "converting", wmv_extracted >>)
            /\ pc' = "build"
       ELSE /\ report' = report \o << << "converting", wmv_extracted >>,
                                      << "docker_unavailable" >> >>
            /\ pc' = AfterUnavailable
    /\ UNCHANGED << parseVars, json, envVars, media0, needed_images, needed_videos,
                    videos_to_convert, videos_skip, images_done, images_skip,
                    wmv_extracted, not_found, tmp_created, tmp_exists, tmp_files,
                    zf_open, name_map, todo, fate, reads, exc, converted >>

\* lines 309-310 with build_docker_image (lines 87-98)
BuildImage(ok) ==
    /\ pc = "build"
    /\ docker' = [docker EXCEPT !.build = @ + 1]
    /\ IF ok THEN Say(<< "image_built" >>) /\ pc' = "run"
             ELSE Say(<< "build_failed" >>) /\ pc' = "finally"
    /\ UNCHANGED << parseVars, json, envVars, media0, needed_images, needed_videos,
                    videos_to_convert, videos_skip, images_done, images_skip,
                    wmv_extracted, not_found, tmp_created, tmp_exists, tmp_files,
                    zf_open, name_map, todo, fate, reads, exc, converted >>

\* The converter container: for the raw files it gets through, it writes
\* <base name>.webm into the output directory.
ConverterOutput(dir, raw, produced) ==
    [ n \in DOMAIN dir \cup { WebmName(f) : f \in produced } |->
        IF \E f \in produced : WebmName(f) = n
        THEN Webm(raw[CHOOSE f \in produced : WebmName(f) = n])
        ELSE dir[n] ]

\* lines 312-319: the one blocking `docker run` over the scratch directory
DockerRun(produced, returncode) ==
    /\ pc = "run"
    /\ produced \subseteq DOMAIN tmp_files
    /\ docker' = [docker EXCEPT !.run = @ + 1, !.returncode = returncode]
    /\ media' = ConverterOutput(media, tmp_files, produced)
    /\ pc' = "verify"
    /\ UNCHANGED << parseVars, json, zip_members, media0, needed_images,
                    needed_videos, videos_to_convert, videos_skip, images_done,
                    images_skip, wmv_extracted, not_found, tmp_created, tmp_exists,
                    tmp_files, zf_open, name_map, todo, fate, reads, report, exc,
                    converted >>

\* lines 324-329
CountConverted(slated, dir) == Cardinality({ w \in slated : WebmName(w) \in DOMAIN dir })

\* lines 321-331: the exit status, then the per-asset existence count
Verify ==
    /\ pc = "verify"
    /\ IF docker.returncode # 0
       THEN /\ Say(<< "exit_nonzero", docker.returncode >>)
            /\ UNCHANGED converted
       ELSE /\ converted' = CountConverted(videos_to_convert, media)
            /\ Say(<< "converted", converted', wmv_extracted, videos_skip >>)
    /\ pc' = "finally"
    /\ UNCHANGED << parseVars, json, envVars, media0, needed_images, needed_videos,
                    videos_to_convert, videos_skip, images_done, images_skip,
                    wmv_extracted, not_found, tmp_created, tmp_exists, tmp_files,
                    zf_open, name_map, todo, fate, reads, exc, docker >>

\* a clean-up that is skipped
Rmtree_skipped(exists) == exists

\* what shutil.rmtree(wmv_temp_dir, ignore_errors=True) leaves on disk
Rmtree(exists) == FALSE

\* lines 333-334: the finally clause, then return or re-raise
Finally ==
    /\ pc = "finally"
    /\ tmp_exists' = Rmtree(tmp_exists)
    /\ tmp_files' = EmptyDir
    /\ pc' = "done"
    /\ UNCHANGED << parseVars, json, envVars, media0, needed_images, needed_videos,
                    videos_to_convert, videos_skip, images_done, images_skip,
                    wmv_extracted, not_found, tmp_created, zf_open, name_map, todo,
                    fate, reads, report, exc, docker, converted >>

\* -------------------------------------------------------------- behaviours
InitRun ==
    /\ pc = "parse" /\ i = 0 /\ questions = << >> /\ skipped = 0
    /\ json = [written |-> FALSE, doc |-> << >>]
    /\ media0 = EmptyDir
    /\ needed_images = {} /\ needed_videos = {} /\ videos_to_convert = {}
    /\ videos_skip = 0 /\ images_done = 0 /\ images_skip = 0
    /\ wmv_extracted = 0 /\ not_found = 0
    /\ tmp_created = FALSE /\ tmp_exists = FALSE /\ tmp_files = EmptyDir
    /\ zf_open = FALSE /\ name_map = EmptyDir /\ todo = {}
    /\ fate = EmptyDir /\ reads = {} /\ report = << >> /\ exc = FALSE
    /\ docker = [info |-> 0, build |-> 0, run |-> 0, returncode |-> 0]
    /\ converted = 0

\* main(): any archive, any media directory a previous run left
Init ==
    /\ InitRun
    /\ zip_members \in NameLists(MaxMembers)
    /\ \E old \in SUBSET OldFiles : media = [n \in old |-> Old]

Next ==
    \/ \E row \in RowsMedia : ParseRow(row)
    \/ ParseEnd
    \/ write_json
    \/ Begin
    \/ ZipOpen
    \/ ZipOpenRaises
    \/ \E img_name \in todo : ExtractImage(img_name)
    \/ \E img_name \in todo : ExtractImageRaises(img_name)
    \/ ImagesEnd
    \/ \E wmv_name \in todo : ExtractVideo(wmv_name)
    \/ \E wmv_name \in todo : ExtractVideoRaises(wmv_name)
    \/ VideosEnd
    \/ NothingSlated
    \/ \E available \in BOOLEAN : DockerCheck(available)
    \/ \E ok \in BOOLEAN : BuildImage(ok)
    \/ \E produced \in SUBSET DOMAIN tmp_files, returncode \in {0, 1} :
           DockerRun(produced, returncode)
    \/ Verify
    \/ Finally

Spec == Init /\ [][Next]_vars

\* parse_xlsx on its own: every combination of cell values, then write_json
InitParse ==
    /\ InitRun
    /\ zip_members = << >>
    /\ media = EmptyDir

NextParse ==
    \/ \E row \in RowsFull : ParseRow(row)
    \/ ParseEnd
    \/ write_json

SpecParse == InitParse /\ [][NextParse]_vars

\* -------------------------------------------------------------- properties
Returned == pc = "done"

Slated == videos_to_convert

\* the archive holds a member whose basename equals name, ignoring case
HasMember(name) ==
    \E j \in DOMAIN zip_members : Lower(Basename(zip_members[j])) = Lower(name)

MembersFor(key) == { j \in DOMAIN zip_members : Lower(Basename(zip_members[j])) = key }

FirstMember(key) == zip_members[CHOOSE j \in MembersFor(key) : \A h \in MembersFor(key) : j <= h]

LastMember(key) == zip_members[CHOOSE j \in MembersFor(key) : \A h \in MembersFor(key) : j >= h]

Indexed == pc \in { "images", "videos" }

\* C1: whenever extract_and_convert has returned or propagated an exception
\* after creating the scratch directory, the scratch directory is gone; it
\* exists only while the function is between mkdtemp and its finally clause.
C1_ScratchRemoved ==
    /\ Returned /\ tmp_created => ~tmp_exists
    /\ tmp_exists => pc \in { "zip_open", "images", "videos", "convert", "build",
                              "run", "verify", "finally" }

C1_Witness == Returned /\ exc /\ tmp_created /\ reads # {} /\ ~tmp_exists

\* the count the run printed for converted videos (nothing printed: none)
ReportedConverted ==
    IF Said("converted")
    THEN (CHOOSE k \in DOMAIN report : report[k][1] = "converted")
    ELSE 0

ReportedConvertedCount == IF ReportedConverted = 0 THEN 0 ELSE report[ReportedConverted][2]

\* C2: at the end of a run that raised nothing, every needed video is
\* reported as exactly one of already-done, converted, failed/missing: the
\* already-done count is the number of needed videos whose output existed at
\* the start, the converted count is the number of slated videos whose output
\* exists at the end, and the rest of the slated videos are the failed ones.
C2_DispositionReported ==
    Returned /\ ~exc =>
        /\ videos_skip = Cardinality({ v \in needed_videos : WebmName(v) \in DOMAIN media0 })
        /\ ReportedConvertedCount
             = Cardinality({ v \in Slated : WebmName(v) \in DOMAIN media })
        /\ videos_skip + Cardinality(Slated) = Cardinality(needed_videos)

\* C3: a needed image that exists when extraction starts, and a needed video
\* whose .webm exists then, is never read from the archive, its file keeps its
\* content, it is counted skipped / already done, and the video is neither
\* slated nor copied to the scratch directory; a run that finds every target
\* in place changes nothing in the media directory and converts nothing.
C3_ExistingAuthoritative ==
    tmp_created =>
        /\ \A n \in needed_images \cap DOMAIN media0 :
              /\ n \in DOMAIN media /\ media[n] = media0[n]
              /\ n \notin reads
              /\ n \in DOMAIN fate => fate[n] = "skipped"
              /\ pc \in { "videos", "convert" } => n \in DOMAIN fate
        /\ \A v \in needed_videos :
              WebmName(v) \in DOMAIN media0 =>
                 /\ WebmName(v) \in DOMAIN media /\ media[WebmName(v)] = media0[WebmName(v)]
                 /\ v \notin reads
                 /\ v \notin Slated
                 /\ v \notin DOMAIN tmp_files
                 /\ fate[v] = "already"
        /\ (Returned /\ ~exc) =>
              /\ images_skip = Cardinality(needed_images \cap DOMAIN media0)
              /\ videos_skip = Cardinality({ v \in needed_videos :
                                               WebmName(v) \in DOMAIN media0 })
        /\ (/\ needed_images \subseteq DOMAIN media0
            /\ \A v \in needed_videos : WebmName(v) \in DOMAIN media0) =>
              /\ media = media0 /\ reads = {} /\ docker.run = 0
              /\ tmp_files = EmptyDir

C3_Witness ==
    /\ Returned /\ ~exc
    /\ needed_images # {} /\ needed_videos # {}
    /\ needed_images \subseteq DOMAIN media0
    /\ \A v \in needed_videos : WebmName(v) \in DOMAIN media0
    /\ images_skip = Cardinality(needed_images)
    /\ videos_skip = Cardinality(needed_videos)

ImagesNotFound == { n \in needed_images : n \notin DOMAIN media0 /\ ~HasMember(n) }

VideosNotFound == { v \in Slated : ~HasMember(v) }

NonWebm(dir) == { n \in DOMAIN dir : ~EndsWith(n, DotWebm) }

\* the image files extraction leaves, from the inputs alone
ExpectedImage(n) == IF n \in DOMAIN media0 THEN media0[n] ELSE LastMember(Lower(n))

ExpectedImages == NonWebm(media0) \cup { n \in needed_images : HasMember(n) }

ImagesAsExpected ==
    /\ NonWebm(media) = ExpectedImages
    /\ \A n \in ExpectedImages : media[n] = ExpectedImage(n)

\* C5: once the run has warned that Docker is unavailable, no build and no
\* batch conversion was or will be invoked, no exception is raised, no slated
\* video has a converted output; and from the end of extraction on, whatever
\* the conversion phase does, questions.json holds the parsed questions and
\* the image files are those the inputs alone determine.
C5_UnavailableIsNoOp ==
    /\ Said("docker_unavailable") =>
          /\ Slated # {}
          /\ docker.build = 0 /\ docker.run = 0
          /\ ~exc
          /\ pc \in { "finally", "done" }
          /\ \A v \in Slated : WebmName(v) \notin DOMAIN media
    /\ (pc \in { "convert", "build", "run", "verify" } \/ (Returned /\ ~exc)) =>
          /\ json = [written |-> TRUE, doc |-> questions]
          /\ ImagesAsExpected

C5_Witness ==
    /\ Returned /\ Said("docker_unavailable")
    /\ images_done > 0 /\ wmv_extracted > 0

Collision == \E j, h \in DOMAIN zip_members :
                j # h /\ Lower(Basename(zip_members[j])) = Lower(Basename(zip_members[h]))

\* C6 as stated: the index maps a basename to the first member of that name,
\* and a lookup resolves to it.
C6_FirstWins ==
    Indexed =>
        /\ \A key \in DOMAIN name_map : name_map[key] = FirstMember(key)
        /\ \A n \in needed_images :
              (n \in DOMAIN fate /\ fate[n] = "extracted") => media[n] = FirstMember(Lower(n))

\* C6 amended: the index has a key for every member's lowercase basename and
\* maps it to the LAST member of that name in the member list; every lookup
\* resolves to that member, so an extracted file holds the last member.
C6_LastWins ==
    Indexed =>
        /\ DOMAIN name_map = { Lower(Basename(zip_members[j])) : j \in DOMAIN zip_members }
        /\ \A key \in DOMAIN name_map : name_map[key] = LastMember(key)
        /\ \A n \in needed_images :
              (n \in DOMAIN fate /\ fate[n] = "extracted") => media[n] = LastMember(Lower(n))
        /\ \A v \in DOMAIN tmp_files : tmp_files[v] = LastMember(Lower(v))

C6_Witness ==
    /\ pc = "videos" /\ Collision
    /\ \E n \in needed_images :
          /\ n \in DOMAIN fate /\ fate[n] = "extracted"
          /\ Cardinality(MembersFor(Lower(n))) > 1

\* C7: every emitted record has a non-empty text and a non-empty correct.
C7_NonEmptyTextCorrect ==
    \A k \in DOMAIN questions :
        questions[k].text # << >> /\ questions[k].correct # << >>

\* C8: in every emitted record media is present (not None) exactly when
\* mediaOrig is present.
C8_MediaIffMediaOrig ==
    \A k \in DOMAIN questions :
        (questions[k].media # None) <=> (questions[k].mediaOrig # None)

\* C9: the emitted correct token is T or N for a TN record and A, B or C for
\* an ABC record.
C9_CorrectInDomain ==
    \A k \in DOMAIN questions :
        /\ questions[k].type = "TN" => questions[k].correct \in { << "T" >>, << "N" >> }
        /\ questions[k].type = "ABC" =>
              questions[k].correct \in { << "A" >>, << "B" >>, << "C" >> }

\* C10: docker run is invoked at most once, never with nothing slated, and
\* when it has been invoked the archive is closed and every slated video is
\* counted not found or was written whole to the scratch directory before
\* the call; the existence count is printed only after the call returned.
C10_OneBatchAfterExtraction ==
    /\ docker.run <= 1
    /\ pc = "run" \/ docker.run = 1 =>
          /\ Slated # {}
          /\ ~zf_open /\ todo = {}
          /\ ~exc
          /\ \A v \in Slated : v \in DOMAIN fate /\ fate[v] \in { "extracted", "not_found" }
    /\ pc \in { "run", "verify" } =>
          \A v \in Slated :
             fate[v] = "extracted" =>
                v \in DOMAIN tmp_files /\ tmp_files[v] = name_map[Lower(v)]
    /\ pc = "verify" => docker.run = 1
    /\ Said("converted") \/ Said("exit_nonzero") =>
          docker.run = 1 /\ pc \in { "finally", "done" }

C10_Witness ==
    /\ Returned /\ docker.run = 1 /\ Said("converted")
    /\ \E v \in Slated : fate[v] = "extracted"
    /\ \E v \in Slated : fate[v] = "not_found"

====
